---------------------------- MODULE Spec2Model ----------------------------
(***************************************************************************)
(* ApplicationService of forms-flow-api                                    *)
(* (src/forms-flow-api/src/formsflow_api/services/application.py).         *)
(*                                                                         *)
(* Every public operation of the service runs to completion inside one     *)
(* request, so each is one action.  The collaborators the service imports  *)
(* (the Application and FormProcessMapper models, BPMService, the          *)
(* marshmallow schema) are modelled from their documented contracts.       *)
(***************************************************************************)
EXTENDS Integers, Sequences, FiniteSets, TLC

VARIABLES
    apps,       \* the application table: apps[i] is the row with id i
    cache,      \* lru_cache of get_authorised_form_list, least recently used first
    remote,     \* the tokens whose authorization changed since the start, with
                \* what the provider answers for them now
    ret,        \* what the last service call returned (or raised)
    fx,         \* the side effects of the last service call
    call,       \* history: the last service call, its inputs, the table size before
    useOrder,   \* history: tokens whose lookup returned, least recently used first
    returned    \* history: the form list last returned for each token

vars == <<apps, cache, remote, ret, fx, call, useOrder, returned>>

-----------------------------------------------------------------------------
(* Bounds of the model *)

MaxApps == 2            \* rows the application table may hold
LRUTokens == 33         \* tokens of the cache specification (one above maxsize)
HotTokens == 1          \* tokens the cache specification looks up again
MaxLimit == 2           \* largest page size and page number of a read

(* Program constants *)

maxsize == 32           \* @lru_cache(maxsize=32)
BAD_GATEWAY == 502      \* HTTPStatus.BAD_GATEWAY
BAD_REQUEST == 400      \* HTTPStatus.BAD_REQUEST
FORBIDDEN == 403        \* HTTPStatus.FORBIDDEN
OK == 200               \* HTTPStatus.OK
NOT_FOUND == 404        \* status carried by the NotFound business error

None == "None"          \* Python's None
Absent == "<absent>"    \* the key is not in the dict
NEW_APPLICATION_STATUS == "New"

PidValues == {"p1", "p2"}
StatusValues == {NEW_APPLICATION_STATUS, "Done"}

-----------------------------------------------------------------------------
(* FormProcessMapper table: F1 is mapped with a process key, F2 is mapped   *)
(* without one, F3 has no mapping.                                          *)

FormIds == {"F1", "F2", "F3"}

Mappers ==
    [F1 |-> [id |-> 1, form_name |-> "N1", process_key |-> "K1"],
     F2 |-> [id |-> 2, form_name |-> "N2", process_key |-> None]]

NoMapper == [id |-> 0, form_name |-> None, process_key |-> None]

\* FormProcessMapper.find_form_by_form_id: the mapper, or NotFound raised
find_form_by_form_id(form_id) ==
    IF form_id \in DOMAIN Mappers
    THEN [raised |-> FALSE, mapper |-> Mappers[form_id]]
    ELSE [raised |-> TRUE, mapper |-> NoMapper]

-----------------------------------------------------------------------------
(* Results of a call *)

\* start: engine start calls; create, update, find: repository calls;
\* fetch: calls of the authorization provider; evicted: the token the cache dropped
NoFx == [start |-> 0, create |-> 0, update |-> 0, find |-> 0, fetch |-> 0,
         evicted |-> 0]

NoData == [form_id |-> None, application_status |-> Absent,
           process_instance_id |-> Absent]

NoOutcome == [kind |-> "", id |-> None]

Call(op, data, outcome, token, application_status) ==
    [op |-> op, data |-> data, outcome |-> outcome, before |-> Len(apps),
     token |-> token, application_status |-> application_status]

\* kind: "none" (nothing called yet), "entity" (a bare application),
\* "pair" (body, status), "list" (serialized list, count), "raise", "void"
Ret(kind, app, status, message, error, body, count) ==
    [kind |-> kind, app |-> app, status |-> status, message |-> message,
     error |-> error, body |-> body, count |-> count]

NoRet == Ret("none", 0, 0, "", "", <<>>, 0)
Entity(id) == Ret("entity", id, 0, "", "", <<>>, 0)
Raise(name, status) == Ret("raise", 0, status, "", name, <<>>, 0)

-----------------------------------------------------------------------------
(* Application model *)

\* Application.create_from_dict: a new row, its id assigned by the table
create_from_dict(table, data) ==
    Append(table,
           [id |-> Len(table) + 1,
            application_status |-> data.application_status,
            form_id |-> data.form_id,
            form_process_mapper_id |-> data.form_process_mapper_id,
            application_name |-> data.application_name,
            process_instance_id |-> None])

\* Application.update: every field the dict carries is written to the row
update(table, id, data) ==
    [table EXCEPT
        ![id].application_status =
            IF data.application_status = Absent THEN @ ELSE data.application_status,
        ![id].process_instance_id =
            IF data.process_instance_id = Absent THEN @ ELSE data.process_instance_id]

OnlyPid(pid) == [application_status |-> Absent, process_instance_id |-> pid]

-----------------------------------------------------------------------------
(* BPMService.post_process_start *)

\* What the engine does with a start request
Outcomes ==
    [kind : {"ok"}, id : PidValues]
    \cup [kind : {"none", "noid", "raise_type", "raise_other"}, id : {None}]

\* A mapper without process key makes the client fail before any answer
post_process_start(process_key, outcome) ==
    IF process_key = None THEN [kind |-> "raise_other", id |-> None] ELSE outcome

\* a start that forgets the returned id
OnStarted_dropsId(table, id, camunda_start_task) ==
    [apps |-> table, ret |-> Entity(id), start |-> 1, update |-> 0]

\* line 50: camunda_start_task["id"] is written to the row
OnStarted(table, id, camunda_start_task) ==
    [apps |-> update(table, id, OnlyPid(camunda_start_task.id)),
     ret |-> Entity(id), start |-> 1, update |-> 1]

\* a handler that deletes the row it could not start a workflow for
OnTypeError_rollsBack(table, id, camunda_error) ==
    [apps |-> SubSeq(table, 1, id - 1),
     ret |-> Ret("pair", 0, BAD_GATEWAY,
                 "Camunda workflow not able to create a task",
                 camunda_error, <<>>, 0),
     start |-> 1, update |-> 0]

\* lines 51-57: except TypeError
OnTypeError(table, id, camunda_error) ==
    [apps |-> table,
     ret |-> Ret("pair", 0, BAD_GATEWAY,
                 "Camunda workflow not able to create a task",
                 camunda_error, <<>>, 0),
     start |-> 1, update |-> 0]

\* a handler that lets the failure escape
OnBaseException_propagates(table, id, application_err) ==
    [apps |-> table, ret |-> Raise(application_err, 0), start |-> 1, update |-> 0]

\* a handler that asks the engine a second time before it gives up
OnBaseException_retries(table, id, application_err) ==
    [apps |-> table,
     ret |-> Ret("pair", 0, BAD_REQUEST,
                 "Camunda Process Mapper Key not provided",
                 application_err, <<>>, 0),
     start |-> 2, update |-> 0]

\* lines 58-64: except BaseException
OnBaseException(table, id, application_err) ==
    [apps |-> table,
     ret |-> Ret("pair", 0, BAD_REQUEST,
                 "Camunda Process Mapper Key not provided",
                 application_err, <<>>, 0),
     start |-> 1, update |-> 0]

\* lines 46-64: the try block around the workflow start.
\* The result: the table, the return value and the effects.
\* Subscripting a None response raises TypeError, a dict without "id" KeyError
StartWorkflow(table, id, mapper, outcome) ==
    LET r == post_process_start(mapper.process_key, outcome) IN
    CASE r.kind = "ok" -> OnStarted(table, id, r)
      [] r.kind \in {"raise_type", "none"} -> OnTypeError(table, id, "TypeError")
      [] r.kind = "noid" -> OnBaseException(table, id, "KeyError")
      [] OTHER -> OnBaseException(table, id, "Exception")

\* an attach that starts a workflow all the same
AttachSupplied_startsWorkflow(table, id, data) ==
    [apps |-> update(table, id, OnlyPid(data.process_instance_id)),
     ret |-> Entity(id), start |-> 1, update |-> 1]

\* lines 34-35: a supplied process_instance_id is attached, no engine call
AttachSupplied(table, id, data) ==
    [apps |-> update(table, id, OnlyPid(data.process_instance_id)),
     ret |-> Entity(id), start |-> 0, update |-> 1]

\* the input dicts of create_application
CreateData ==
    [form_id : FormIds,
     application_status : {Absent, "Done"},
     process_instance_id : {Absent, None} \cup PidValues]

\* a creation that persists the row before it resolves the mapping
CreateApplication_persistsFirst(table, data, outcome) ==
    LET d1 == [data EXCEPT !.application_status = NEW_APPLICATION_STATUS]
        m == find_form_by_form_id(d1.form_id)
        d2 == [form_id |-> d1.form_id,
               application_status |-> d1.application_status,
               process_instance_id |-> d1.process_instance_id,
               form_process_mapper_id |-> m.mapper.id,
               application_name |-> m.mapper.form_name]
        t1 == create_from_dict(table, d2)
        id == Len(t1)
    IN  IF m.raised
        THEN [apps |-> t1, ret |-> Raise("NotFound", NOT_FOUND),
              fx |-> [NoFx EXCEPT !.create = 1]]
        ELSE
        LET r == IF d2.process_instance_id # Absent
                 THEN AttachSupplied(t1, id, d2)
                 ELSE StartWorkflow(t1, id, m.mapper, outcome)
        IN  [apps |-> r.apps, ret |-> r.ret,
             fx |-> [NoFx EXCEPT !.start = r.start, !.create = 1,
                                 !.update = r.update]]

\* lines 26-65 as a function of the table and the inputs
CreateApplication(table, data, outcome) ==
    LET d1 == [data EXCEPT !.application_status = NEW_APPLICATION_STATUS]
        m == find_form_by_form_id(d1.form_id)
    IN  IF m.raised
        THEN [apps |-> table, ret |-> Raise("NotFound", NOT_FOUND), fx |-> NoFx]
        ELSE
        LET d2 == [form_id |-> d1.form_id,
                   application_status |-> d1.application_status,
                   process_instance_id |-> d1.process_instance_id,
                   form_process_mapper_id |-> m.mapper.id,
                   application_name |-> m.mapper.form_name]
            t1 == create_from_dict(table, d2)
            id == Len(t1)
            r == IF d2.process_instance_id # Absent
                 THEN AttachSupplied(t1, id, d2)
                 ELSE StartWorkflow(t1, id, m.mapper, outcome)
        IN  [apps |-> r.apps, ret |-> r.ret,
             fx |-> [NoFx EXCEPT !.start = r.start, !.create = 1,
                                 !.update = r.update]]

create_application(data, outcome) ==
    /\ Len(apps) < MaxApps
    /\ LET r == CreateApplication(apps, data, outcome) IN
        /\ apps' = r.apps
        /\ ret' = r.ret
        /\ fx' = r.fx
    /\ call' = Call("create_application", data, outcome, 0, None)
    /\ UNCHANGED <<cache, remote, useOrder, returned>>

\* the input dicts of update_application
UpdateData ==
    [form_id : {Absent},
     application_status : {Absent} \cup StatusValues,
     process_instance_id : {Absent, None} \cup PidValues]

\* lines 343-350
update_application(application_id, data) ==
    /\ IF application_id \in DOMAIN apps
       THEN /\ apps' = update(apps, application_id, data)
            /\ ret' = Ret("void", application_id, 0, "", "", <<>>, 0)
            /\ fx' = [NoFx EXCEPT !.find = 1, !.update = 1]
       ELSE /\ apps' = apps
            /\ ret' = Raise("BusinessException", BAD_REQUEST)
            /\ fx' = [NoFx EXCEPT !.find = 1]
    /\ call' = Call("update_application",
                    [data EXCEPT !.form_id = None], NoOutcome, 0, None)
    /\ UNCHANGED <<cache, remote, useOrder, returned>>

-----------------------------------------------------------------------------
(* The authorization provider and the memoized lookup *)

\* what the provider answers for token t when the process starts
InitialForms(t) ==
    CASE t % 3 = 1 -> <<[formName |-> "N1"]>>
      [] t % 3 = 2 -> <<>>
      [] OTHER -> <<[formName |-> "N1"], [formName |-> "N2"]>>

\* BPMService.get_auth_form_details: the provider's answer now, or a failure
RemoteForms(token) ==
    IF token \in DOMAIN remote THEN remote[token] ELSE InitialForms(token)

get_auth_form_details(token, fails) ==
    [raised |-> fails, forms |-> IF fails THEN <<>> ELSE RemoteForms(token)]

CachedTokens(c) == {c[i].token : i \in DOMAIN c}

IndexOf(c, token) == CHOOSE i \in DOMAIN c : c[i].token = token

Without(c, i) == SubSeq(c, 1, i - 1) \o SubSeq(c, i + 1, Len(c))

\* a cache whose hits do not refresh the entry (first in, first out)
lru_cache_call_fifo(c, token, fails) ==
    IF token \in CachedTokens(c)
    THEN [cache |-> c, raised |-> FALSE,
          result |-> c[IndexOf(c, token)].result, fetch |-> 0, evicted |-> 0]
    ELSE LET r == get_auth_form_details(token, fails) IN
         IF r.raised
         THEN [cache |-> c, raised |-> TRUE, result |-> <<>>, fetch |-> 1,
               evicted |-> 0]
         ELSE LET e == [token |-> token, result |-> r.forms] IN
              IF Len(c) >= maxsize
              THEN [cache |-> Append(Tail(c), e), raised |-> FALSE,
                    result |-> r.forms, fetch |-> 1, evicted |-> c[1].token]
              ELSE [cache |-> Append(c, e), raised |-> FALSE,
                    result |-> r.forms, fetch |-> 1, evicted |-> 0]

\* functools.lru_cache(maxsize=32) around the function of lines 69-74:
\* a hit returns the stored result and makes the entry the most recent one;
\* a miss calls the function, stores its result and, when the cache is full,
\* drops the oldest entry; a call that raises stores nothing.
lru_cache_call(c, token, fails) ==
    IF token \in CachedTokens(c)
    THEN LET i == IndexOf(c, token) IN
         [cache |-> Append(Without(c, i), c[i]), raised |-> FALSE,
          result |-> c[i].result, fetch |-> 0, evicted |-> 0]
    ELSE LET r == get_auth_form_details(token, fails) IN
         IF r.raised
         THEN [cache |-> c, raised |-> TRUE, result |-> <<>>, fetch |-> 1,
               evicted |-> 0]
         ELSE LET e == [token |-> token, result |-> r.forms] IN
              IF Len(c) >= maxsize
              THEN [cache |-> Append(Tail(c), e), raised |-> FALSE,
                    result |-> r.forms, fetch |-> 1, evicted |-> c[1].token]
              ELSE [cache |-> Append(c, e), raised |-> FALSE,
                    result |-> r.forms, fetch |-> 1, evicted |-> 0]

\* history of the lookups that returned
Recency(order, token) ==
    Append(SelectSeq(order, LAMBDA u : u # token), token)

Remember(token, r) ==
    /\ cache' = r.cache
    /\ useOrder' = IF r.raised THEN useOrder ELSE Recency(useOrder, token)
    /\ returned' = IF r.raised THEN returned
                   ELSE [t \in DOMAIN returned \cup {token} |->
                            IF t = token THEN r.result ELSE returned[t]]

LookupFx(r) == [NoFx EXCEPT !.fetch = r.fetch, !.evicted = r.evicted]

\* lines 67-74, called directly
get_authorised_form_list(token, fails) ==
    LET r == lru_cache_call(cache, token, fails) IN
    /\ fails => token \notin CachedTokens(cache)
    /\ Remember(token, r)
    /\ ret' = IF r.raised THEN Raise("Exception", 0)
              ELSE Ret("forms", 0, 0, "", "", r.result, 0)
    /\ fx' = LookupFx(r)
    /\ call' = Call("get_authorised_form_list", NoData, NoOutcome, token, None)
    /\ UNCHANGED <<apps, remote>>

\* the provider changes what a token is authorized for
AuthChange(token, forms) ==
    /\ forms # RemoteForms(token)
    /\ remote' = [t \in DOMAIN remote \cup {token} |->
                    IF t = token THEN forms ELSE remote[t]]
    /\ UNCHANGED <<apps, cache, ret, fx, call, useOrder, returned>>

-----------------------------------------------------------------------------
(* Repository finds and the output schema *)

Min(a, b) == IF a < b THEN a ELSE b

\* the rows of the authorized forms that pass the caller's filter
\* (application_status None: no constraint)
Filtered(table, form_names, application_status) ==
    SelectSeq(table,
              LAMBDA a : /\ a.application_name \in form_names
                         /\ \/ application_status = None
                            \/ a.application_status = application_status)

\* page page_no of size limit; a falsy page_no or limit (0) returns all rows
Paginate(rows, page_no, limit) ==
    IF page_no = 0 \/ limit = 0 THEN rows
    ELSE SubSeq(rows, (page_no - 1) * limit + 1, Min(page_no * limit, Len(rows)))

\* Application.find_by_form_names: (page, total count)
find_by_form_names(table, form_names, application_status, page_no, limit) ==
    LET rows == Filtered(table, form_names, application_status) IN
    [items |-> Paginate(rows, page_no, limit), count |-> Len(rows)]

\* Application.find_all_applications: the paginated query
find_all_applications(table, form_names, page_no, limit) ==
    Paginate(Filtered(table, form_names, None), page_no, limit)

\* Application.find_id_by_form_names: the rows (none or one) with that id
find_id_by_form_names(table, form_names, application_id) ==
    SelectSeq(table, LAMBDA a : a.id = application_id
                                /\ a.application_name \in form_names)

\* ApplicationSchema().dump of one row
dump(a) ==
    [id |-> a.id, applicationName |-> a.application_name,
     applicationStatus |-> a.application_status,
     formProcessMapperId |-> a.form_process_mapper_id,
     processInstanceId |-> a.process_instance_id]

\* ApplicationSchema().dump(rows, many=True); dump([]) and dump(None) are empty
dump_many(rows) == [i \in 1..Len(rows) |-> dump(rows[i])]

\* lines 112-116: the names of the authorized forms
FormNames(auth_form_details) ==
    {auth_form_details[i].formName : i \in DOMAIN auth_form_details}

\* lines 111-138 after the lookup: the return value and the repository calls
AuthApplicationsAndCount(table, auth_form_details, application_status, page_no, limit) ==
    IF auth_form_details # <<>>
    THEN LET f == find_by_form_names(table, FormNames(auth_form_details),
                                     application_status, page_no, limit)
         IN  [ret |-> Ret("list", 0, 0, "", "", dump_many(f.items), f.count),
              find |-> 1]
    ELSE [ret |-> Ret("list", 0, 0, "", "", dump_many(<<>>), 0), find |-> 0]

\* a count that asks the repository whatever the lookup returned
AllApplicationCount_ungated(table, auth_form_details, page_no, limit) ==
    LET applications == find_all_applications(table, FormNames(auth_form_details),
                                              page_no, limit)
    IN  [ret |-> Ret("list", 0, 0, "", "", dump_many(applications),
                     Len(applications)),
         find |-> 1]

\* lines 254-268 after the lookup
AllApplicationCount(table, auth_form_details, page_no, limit) ==
    IF auth_form_details # <<>>
    THEN LET applications == find_all_applications(table, FormNames(auth_form_details),
                                                   page_no, limit)
         IN  [ret |-> Ret("list", 0, 0, "", "", dump_many(applications),
                          Len(applications)),
              find |-> 1]
    ELSE [ret |-> Ret("list", 0, 0, "", "", dump_many(<<>>), 0), find |-> 0]

\* lines 143-155 after the lookup
AuthByApplicationId(table, auth_form_details, application_id) ==
    IF auth_form_details # <<>>
    THEN LET application == find_id_by_form_names(table, FormNames(auth_form_details),
                                                  application_id)
         IN  [ret |-> Ret("pair", 0, OK, "", "", dump_many(application), 0),
              find |-> 1]
    ELSE [ret |-> Ret("pair", 0, FORBIDDEN, "", "", dump_many(<<>>), 0), find |-> 0]

\* a read, given its memoized lookup r (line 111, 143 or 254) and what its
\* body b makes of the result; a lookup that raises propagates out of the read
Read(op, token, fails, application_status, r, b) ==
    /\ fails => token \notin CachedTokens(cache)
    /\ Remember(token, r)
    /\ ret' = IF r.raised THEN Raise("Exception", 0) ELSE b.ret
    /\ fx' = [LookupFx(r) EXCEPT !.find = IF r.raised THEN 0 ELSE b.find]
    /\ call' = Call(op, NoData, NoOutcome, token, application_status)
    /\ UNCHANGED <<apps, remote>>

\* lines 76-138
get_auth_applications_and_count(token, page_no, limit, application_status, fails) ==
    LET r == lru_cache_call(cache, token, fails)
        b == AuthApplicationsAndCount(apps, r.result, application_status,
                                      page_no, limit)
    IN  Read("get_auth_applications_and_count", token, fails, application_status, r, b)

\* lines 243-268
get_all_application_count(token, page_no, limit, fails) ==
    LET r == lru_cache_call(cache, token, fails)
        b == AllApplicationCount(apps, r.result, page_no, limit)
    IN  Read("get_all_application_count", token, fails, None, r, b)

\* lines 140-155
get_auth_by_application_id(application_id, token, fails) ==
    LET r == lru_cache_call(cache, token, fails)
        b == AuthByApplicationId(apps, r.result, application_id)
    IN  Read("get_auth_by_application_id", token, fails, None, r, b)

-----------------------------------------------------------------------------
Init ==
    /\ apps = <<>>
    /\ cache = <<>>
    /\ remote = <<>>
    /\ ret = NoRet
    /\ fx = NoFx
    /\ call = [op |-> "", data |-> NoData, outcome |-> NoOutcome, before |-> 0,
               token |-> 0, application_status |-> None]
    /\ useOrder = <<>>
    /\ returned = <<>>

\* the creation pipeline and the administrative update
Next ==
    \/ \E data \in CreateData, outcome \in Outcomes : create_application(data, outcome)
    \/ \E id \in 1..MaxApps, data \in UpdateData : update_application(id, data)

Spec == Init /\ [][Next]_vars

-----------------------------------------------------------------------------
(* Properties of the creation pipeline, over Spec *)

Created == call.op = "create_application"

Mapped == call.data.form_id \in DOMAIN Mappers

\* what the engine client did with the start request of the last call
Engine == post_process_start(Mappers[call.data.form_id].process_key, call.outcome)

\* the row the last call persisted
Persisted == Len(apps) = call.before + 1

NewRow == apps[Len(apps)]

\* C1: a creation without a supplied process_instance_id whose workflow start
\* returns a well-formed response stores exactly the returned instance id in
\* the row it persisted.
C1_ReturnedIdIsStored ==
    (Created /\ call.data.process_instance_id = Absent /\ Mapped
        /\ Engine.kind = "ok")
    => /\ Persisted
       /\ NewRow.process_instance_id = Engine.id
       /\ ret = Entity(Len(apps))

C1_Witness ==
    /\ Created /\ call.data.process_instance_id = Absent /\ Mapped
    /\ Engine.kind = "ok" /\ Engine.id = "p2"
    /\ Persisted /\ NewRow.process_instance_id = "p2"

\* C2: a creation with a supplied process_instance_id makes no workflow-start
\* call, and the row it persists carries the supplied value verbatim.
C2_SuppliedIdIsStoredWithoutStart ==
    (Created /\ call.data.process_instance_id # Absent)
    => /\ fx.start = 0
       /\ Mapped => Persisted
       /\ Persisted => NewRow.process_instance_id = call.data.process_instance_id

C2_Witness ==
    /\ Created /\ call.data.process_instance_id = "p2" /\ call.outcome.kind = "ok"
    /\ call.outcome.id = "p1"
    /\ Persisted /\ NewRow.process_instance_id = "p2" /\ fx.start = 0

\* C3: when the workflow start fails with a type mismatch, the creation
\* returns a (message, bad gateway) pair instead of raising, and the row it
\* persisted is still there, without a process-instance id.
C3_TypeErrorIsBadGatewayWithoutRollback ==
    (Created /\ call.data.process_instance_id = Absent /\ Mapped
        /\ Engine.kind \in {"raise_type", "none"})
    => /\ ret.kind = "pair" /\ ret.status = BAD_GATEWAY /\ ret.message # ""
       /\ Persisted
       /\ NewRow.process_instance_id = None

C3_Witness ==
    /\ Created /\ call.data.process_instance_id = Absent /\ Mapped
    /\ Engine.kind = "raise_type"
    /\ ret.status = BAD_GATEWAY /\ Len(apps) = 2
    /\ NewRow.process_instance_id = None

\* C4: when the workflow client fails in any other way (a missing process key
\* included), the creation returns a (body, bad request) pair that carries
\* the error instead of raising, and the row it persisted is still there,
\* without a process-instance id.
C4_OtherFailureIsBadRequestWithoutRollback ==
    (Created /\ call.data.process_instance_id = Absent /\ Mapped
        /\ Engine.kind = "raise_other")
    => /\ ret.kind = "pair" /\ ret.status = BAD_REQUEST /\ ret.error = "Exception"
       /\ Persisted
       /\ NewRow.process_instance_id = None

C4_Witness ==
    /\ Created /\ call.data.process_instance_id = Absent
    /\ call.data.form_id = "F2" /\ call.outcome.kind = "ok"
    /\ ret.status = BAD_REQUEST /\ Persisted
    /\ NewRow.process_instance_id = None

\* C5 as claimed: every creation makes at most one workflow-start call,
\* exactly one persistence create and at most one update.
C5_ExactlyOneCreate ==
    Created => /\ fx.start <= 1
               /\ fx.create = 1 /\ Len(apps) = call.before + 1
               /\ fx.update <= 1

\* C5 amended: every creation makes at most one workflow-start call (a failed
\* start is not repeated), at most one update, and exactly one persistence
\* create when the mapping lookup succeeds, none when it fails.
C5_AtMostOneOfEach ==
    Created => /\ fx.start <= 1
               /\ fx.update <= 1
               /\ fx.create = (IF Mapped THEN 1 ELSE 0)
               /\ Len(apps) = call.before + fx.create

C5_Witness ==
    /\ Created /\ Mapped /\ call.data.process_instance_id = Absent
    /\ Engine.kind = "raise_other" /\ call.data.form_id = "F1"
    /\ fx.start = 1 /\ fx.create = 1 /\ fx.update = 0

\* C8 as claimed: once a row's process-instance id is set, no creation or
\* update clears it.
C8_PidNeverCleared ==
    [][\A i \in DOMAIN apps :
          apps[i].process_instance_id # None
          => apps'[i].process_instance_id # None]_vars

\* C9: a creation for a form without mapping raises NotFound, and it has then
\* persisted no row and made no workflow-start call.
C9_UnmappedFormRaisesBeforePersisting ==
    (Created /\ ~Mapped)
    => /\ ret.kind = "raise" /\ ret.error = "NotFound"
       /\ Len(apps) = call.before
       /\ fx.create = 0 /\ fx.start = 0 /\ fx.update = 0

C9_Witness ==
    /\ Created /\ call.data.form_id = "F3"
    /\ call.data.process_instance_id = Absent
    /\ ret.error = "NotFound" /\ Len(apps) = 1 /\ call.before = 1

(* The authorization-scoped reads over a table filled by the creation       *)
(* pipeline.  Token 1 is authorized for form N1, token 2 for nothing.       *)

Credentials == {1, 2}

ReadCreateData ==
    [form_id : {"F1", "F2"}, application_status : {Absent},
     process_instance_id : {"p1"}]

ReadUpdateData ==
    [form_id : {Absent}, application_status : {"Done"},
     process_instance_id : {Absent}]

\* (page_no, limit) of a read; 0 is a falsy (absent) value
Pages ==
    {<<0, 0>>, <<0, 1>>, <<1, 0>>} \cup ((1..MaxLimit) \X (1..MaxLimit))

NextRead ==
    \/ \E data \in ReadCreateData : create_application(data, [kind |-> "ok", id |-> "p1"])
    \/ \E id \in 1..MaxApps, data \in ReadUpdateData : update_application(id, data)
    \/ \E t \in Credentials, pg \in Pages, st \in {None, "Done"}, fails \in BOOLEAN :
            get_auth_applications_and_count(t, pg[1], pg[2], st, fails)
    \/ \E t \in Credentials, pg \in Pages, fails \in BOOLEAN :
            get_all_application_count(t, pg[1], pg[2], fails)
    \/ \E id \in 1..MaxApps, t \in Credentials, fails \in BOOLEAN :
            get_auth_by_application_id(id, t, fails)

SpecRead == Init /\ [][NextRead]_vars

(* Properties of the reads, over SpecRead *)

ListReads == {"get_auth_applications_and_count", "get_all_application_count"}

AuthReads == ListReads \cup {"get_auth_by_application_id"}

\* the form list the lookup of the last call returned
Authorised == returned[call.token]

\* C6: a read whose authorized-forms lookup returned an empty list does not
\* call the repository; the list reads return an empty list with count 0,
\* the lookup by id an empty body with the forbidden status.
C6_NoFormsNoRepository ==
    (call.op \in AuthReads /\ ret.kind # "raise" /\ Authorised = <<>>)
    => /\ fx.find = 0
       /\ ret.body = <<>>
       /\ call.op \in ListReads => ret.kind = "list" /\ ret.count = 0
       /\ call.op = "get_auth_by_application_id"
            => ret.kind = "pair" /\ ret.status = FORBIDDEN

C6_Witness ==
    /\ call.op = "get_all_application_count" /\ call.token = 2
    /\ ret.kind = "list" /\ Authorised = <<>>
    /\ Len(apps) = 2 /\ fx.find = 0 /\ fx.fetch = 0

\* C10 as claimed: the count a list read returns is the size of the full
\* filtered set of the caller's authorized forms, whatever the page.
C10_CountIsFullFilteredSet ==
    (call.op \in ListReads /\ ret.kind = "list")
    => ret.count = Len(Filtered(apps, FormNames(Authorised),
                                call.application_status))

(* The cache alone.  New tokens arrive in increasing order; only the first  *)
(* HotTokens tokens are looked up again.                                    *)

Seen == {useOrder[i] : i \in DOMAIN useOrder}

LRUCallable ==
    {t \in 1..LRUTokens :
        \/ t <= HotTokens
        \/ t \notin Seen /\ (t = HotTokens + 1 \/ t - 1 \in Seen)}

NextLRU ==
    \/ \E t \in LRUCallable, fails \in BOOLEAN : get_authorised_form_list(t, fails)
    \/ \E forms \in {<<>>, <<[formName |-> "N1"]>>} : AuthChange(1, forms)

SpecLRU == Init /\ [][NextLRU]_vars

(* Properties of the cache, over SpecLRU *)

\* the tokens among the maxsize most recently looked up ones
Retained(order) ==
    {order[i] : i \in {j \in DOMAIN order : j > Len(order) - maxsize}}

\* the least recently used of the retained tokens when the cache is full
Victim(order) ==
    IF Len(order) >= maxsize THEN order[Len(order) - maxsize + 1] ELSE 0

\* C7: a lookup of a token among the 32 most recently used ones returns what
\* the previous lookup of that token returned, without a call of the provider
\* and without eviction; a lookup of any other token calls the provider and,
\* when 32 tokens are retained, evicts exactly the least recently used one.
C7_LeastRecentlyUsedCache ==
    [][(remote' = remote /\ ret'.kind = "forms")
       => LET t == call'.token IN
          /\ t \in Retained(useOrder)
                => /\ fx'.fetch = 0 /\ fx'.evicted = 0
                   /\ ret'.body = returned[t]
          /\ t \notin Retained(useOrder)
                => /\ fx'.fetch = 1
                   /\ fx'.evicted = Victim(useOrder)
          /\ CachedTokens(cache') = Retained(useOrder')
          /\ Len(cache') <= maxsize]_vars

\* token 1 was looked up again before the 33rd token arrived, so token 2 is
\* the one evicted
C7_Witness ==
    /\ call.op = "get_authorised_form_list" /\ call.token = maxsize + 1
    /\ fx.fetch = 1 /\ fx.evicted = 2
    /\ 1 \in CachedTokens(cache) /\ Len(cache) = maxsize

=============================================================================
